---- MODULE Spec2Model ----
(***************************************************************************)
(* Model of the 3DCG Tutorial Simulator add-on (src/__init__.py): the      *)
(* progress properties (TUTORIAL_PG_Properties), the operators that move   *)
(* them (setup_stage, validate_stage, next_stage, reset, goto_chapter),    *)
(* the modal monitoring operator and StageManager.validate_stage.          *)
(*                                                                         *)
(* Units.  Lengths, scales and view distances are integers in hundredths;  *)
(* angles are integers in tenths of a degree; sculpt vertex coordinates    *)
(* are integers in 1/10000; time is an integer in tenths of a second.      *)
(* A comparison  sqrt(q) > t  of the source is computed as  q > t*t.       *)
(* time.time() is read only in the difference current_time - _last_check,  *)
(* which each monitoring instance carries as since_check, counted up to    *)
(* MaxElapsed.                                                             *)
(***************************************************************************)
EXTENDS Integers, Sequences, FiniteSets, TLC

VARIABLES
    current_chapter,    \* props.current_chapter
    current_stage,      \* props.current_stage
    stage_complete,     \* props.stage_complete
    monitoring_active,  \* props.monitoring_active
    baseline,           \* props.initial_* (the baseline snapshot)
    host,               \* the scene, view, mesh and material state of the host
    ctrl,               \* the TUTORIAL_OT_monitoring instances (_timer, _last_check)
    last,               \* the most recent operation and what it returned
    okSinceCall,        \* history: validator succeeded since the last Setup/Advance/Reset/Goto call
    okSinceClear,       \* history: validator succeeded since stage_complete was last assigned False
    stale               \* history, kept only when stale.tracked: the instances that were
                        \* registered when Advance, Reset or GotoChapter last cleared
                        \* monitoring_active and have not finished since

vars == <<current_chapter, current_stage, stage_complete, monitoring_active,
          baseline, host, ctrl, last, okSinceCall, okSinceClear, stale>>

----------------------------------------------------------------------------
(* Bounds of the model *)

MaxControllers == 1

(* Program constants *)

LastChapter == 5
StageMin == 1
StageMax == 5

(* modal calls check_stage when more than 0.2 s have passed since the last call *)
CheckAfter == 2

(* every elapsed time above CheckAfter takes the same branch of modal *)
MaxElapsed == CheckAfter + 1

Controllers == 1..MaxControllers
Chapters == 1..LastChapter

----------------------------------------------------------------------------
(* Small helpers *)

Abs(x) == IF x < 0 THEN -x ELSE x

Min2(a, b) == IF a < b THEN a ELSE b

SqDist(p, q) == (p[1]-q[1])*(p[1]-q[1]) + (p[2]-q[2])*(p[2]-q[2]) + (p[3]-q[3])*(p[3]-q[3])

Msg(tag, n, s) == [tag |-> tag, n |-> n, s |-> s]

Result(ok, m) == [ok |-> ok, msg |-> m]

----------------------------------------------------------------------------
(* The host state read by the add-on.

   mode            bpy.context.mode
   objects         names of the mesh objects in bpy.data.objects
   active          name of context.active_object, "None" when there is none
   location, rotation, scale      transform of the active object
   view, view_location, view_distance   the VIEW_3D space and its region_3d
   verts, edges, faces            element counts of the cube mesh
   sel_verts, sel_edges, sel_faces  selected elements of the edit mesh
                   (0 outside edit mode, where the add-on cannot read them)
   sphere_co       vertex coordinates of the sphere mesh
   brush           name of the active sculpt brush, "None" when there is none
   material        active material of the active object
   fault           the scene data cannot be read: every read of it and every
                   bpy.ops call raises (the add-on's own properties stay
                   readable)                                                  *)

NoMaterial == [slot |-> FALSE, use_nodes |-> FALSE, nodes |-> <<>>, links |-> {}]

Node(type, image, base_color, roughness, metallic) ==
    [type |-> type, image |-> image, base_color |-> base_color,
     roughness |-> roughness, metallic |-> metallic]

Link(from_node, from_socket, to_node, to_socket) ==
    [from_node |-> from_node, from_socket |-> from_socket,
     to_node |-> to_node, to_socket |-> to_socket]

DefaultBsdf == Node("BSDF_PRINCIPLED", FALSE, <<100, 100, 100, 100>>, 50, 0)

NewMaterial == [slot |-> TRUE, use_nodes |-> TRUE, nodes |-> <<DefaultBsdf>>, links |-> {}]

(* primitive_cube_add(size=2): 8 vertices, 12 edges, 6 faces *)
CubeVerts == 8
CubeEdges == 12
CubeFaces == 6

(* Element counts of an edited mesh are tracked up to MeshCap cubes. *)
MeshCap == 1

(* The sphere of the model has NumSphereVerts vertices on a line. *)
NumSphereVerts == 7

SphereCo == [i \in 1..NumSphereVerts |-> <<1000 * i, 0, 0>>]

SphereEdges(h) == 2 * Len(h.sphere_co)

SphereFaces(h) == Len(h.sphere_co)

(* Sub-string test  brush_type_name in brush_name  on the brush names of the model *)
BrushNames == {"Draw", "Smooth", "Grab", "Elastic Grab"}

InName(part, name) ==
    \/ part = name
    \/ part = "Grab" /\ name = "Elastic Grab"

----------------------------------------------------------------------------
(* StageManager helpers *)

find_cube(h) == ~h.fault /\ "Cube" \in h.objects

find_sphere(h) == ~h.fault /\ "Sphere" \in h.objects

get_bm(h) == ~h.fault /\ h.active # "None" /\ h.mode = "EDIT_MESH"

bm_verts(h) == IF h.active = "Sphere" THEN Len(h.sphere_co) ELSE h.verts

bm_faces(h) == IF h.active = "Sphere" THEN SphereFaces(h) ELSE h.faces

get_mesh_element_count(h, name) ==
    IF name = "Sphere"
    THEN <<Len(h.sphere_co), SphereEdges(h), SphereFaces(h)>>
    ELSE <<h.verts, h.edges, h.faces>>

get_view3d_space(h) == ~h.fault /\ h.view

is_in_sculpt_mode(h) == ~h.fault /\ h.mode = "SCULPT"

is_undo_running(undo_depth) == undo_depth > 0

get_current_brush_name(h) == IF h.fault THEN "None" ELSE h.brush

is_brush_type_selected(h, brush_type_name) ==
    get_current_brush_name(h) # "None" /\ InName(brush_type_name, get_current_brush_name(h))

(* dist > 0.001 on coordinates in 1/10000: squared distance > 10*10 *)
calculate_vertex_distance_sq(v_co, init_co) == SqDist(v_co, init_co)

(* a faulty variant of get_vertex_deformation_amount that counts a vertex at
   distance 0.001 as moved *)
get_vertex_deformation_amount_at_least(sphere_co, initial_positions) ==
    LET compare_count == Min2(Len(sphere_co), Len(initial_positions))
    IN  IF Len(sphere_co) = 0 \/ compare_count = 0 THEN 0
        ELSE Cardinality({i \in 1..compare_count :
                 calculate_vertex_distance_sq(sphere_co[i], initial_positions[i]) >= 100})

(* a faulty variant of get_vertex_deformation_amount that counts every vertex
   as moved when it has no baseline position to compare with *)
get_vertex_deformation_amount_counting_missing(sphere_co, initial_positions) ==
    LET compare_count == Min2(Len(sphere_co), Len(initial_positions))
    IN  Cardinality({i \in 1..Len(sphere_co) :
            \/ i > compare_count
            \/ calculate_vertex_distance_sq(sphere_co[i], initial_positions[i]) > 100})

get_vertex_deformation_amount(sphere_co, initial_positions) ==
    LET compare_count == Min2(Len(sphere_co), Len(initial_positions))
    IN  IF Len(sphere_co) = 0 \/ compare_count = 0 THEN 0
        ELSE Cardinality({i \in 1..compare_count :
                 calculate_vertex_distance_sq(sphere_co[i], initial_positions[i]) > 100})

get_active_material(h) ==
    IF ~h.fault /\ h.active # "None" /\ h.material.slot THEN h.material ELSE NoMaterial

FirstNode(nodes, type) ==
    LET S == {i \in 1..Len(nodes) : nodes[i].type = type}
    IN  IF S = {} THEN 0 ELSE CHOOSE i \in S : \A j \in S : i <= j

LastNode(nodes, type) ==
    LET S == {i \in 1..Len(nodes) : nodes[i].type = type}
    IN  IF S = {} THEN 0 ELSE CHOOSE i \in S : \A j \in S : j <= i

(* index of the node returned, 0 for None *)
get_principled_bsdf(material) ==
    IF ~material.slot \/ ~material.use_nodes THEN 0
    ELSE FirstNode(material.nodes, "BSDF_PRINCIPLED")

check_image_texture_node_exists(h) ==
    LET mat == get_active_material(h)
    IN  /\ mat.slot
        /\ mat.use_nodes
        /\ \E i \in 1..Len(mat.nodes) : mat.nodes[i].type = "TEX_IMAGE" /\ mat.nodes[i].image

check_correct_node_link(h) ==
    LET mat == get_active_material(h)
        image_texture_node == LastNode(mat.nodes, "TEX_IMAGE")
        bsdf_node == LastNode(mat.nodes, "BSDF_PRINCIPLED")
    IN  /\ mat.slot
        /\ mat.use_nodes
        /\ image_texture_node # 0
        /\ bsdf_node # 0
        /\ \E link \in mat.links :
              /\ link.from_node = image_texture_node
              /\ link.to_node = bsdf_node
              /\ link.from_socket = "Color"
              /\ link.to_socket = "Base Color"

----------------------------------------------------------------------------
(* StageManager.get_stage_info: the dictionary of a chapter keyed by the
   stage numbers 1..n is a sequence of n descriptors; the texts are given in
   English; the keys control, manual, details and tip are display texts of
   the same entries and are left out                                        *)

Descriptor(title, name, description) ==
    [title |-> title, name |-> name, description |-> description]

(* the empty dictionary {} *)
EmptyDescriptor == [key \in {} |-> ""]

stages(chapter_num) ==
    CASE chapter_num = 1 ->
           <<Descriptor("Chapter 1: Basic operations", "Stage 1: Select the cube",
                        "Select the cube"),
             Descriptor("Chapter 1: Basic operations", "Stage 2: Move the cube",
                        "Move +2 along the X axis"),
             Descriptor("Chapter 1: Basic operations", "Stage 3: Rotate the cube",
                        "Rotate 45 degrees about the X axis"),
             Descriptor("Chapter 1: Basic operations", "Stage 4: Change the scale",
                        "Change the size")>>
      [] chapter_num = 2 ->
           <<Descriptor("Chapter 2: View operations", "Stage 1: Move the view",
                        "Pan with Shift + middle button"),
             Descriptor("Chapter 2: View operations", "Stage 2: Zoom",
                        "Scroll the middle button"),
             Descriptor("Chapter 2: View operations", "Stage 3: Rotate the view",
                        "Drag the middle button"),
             Descriptor("Chapter 2: View operations", "Stage 4: Master them all",
                        "Do every operation")>>
      [] chapter_num = 3 ->
           <<Descriptor("Chapter 3: Modelling basics", "Stage 1: Edit mode",
                        "Switch with the Tab key"),
             Descriptor("Chapter 3: Modelling basics", "Stage 2: Select vertices",
                        "Select 3 or more vertices"),
             Descriptor("Chapter 3: Modelling basics", "Stage 3: Select an edge",
                        "Select an edge"),
             Descriptor("Chapter 3: Modelling basics", "Stage 4: Select a face",
                        "Select a face"),
             Descriptor("Chapter 3: Modelling basics", "Stage 5: Extrude",
                        "Extrude with the E key"),
             Descriptor("Chapter 3: Modelling basics", "Stage 6: Loop cut",
                        "Loop cut with Ctrl+R")>>
      [] chapter_num = 4 ->
           <<Descriptor("Chapter 4: Sculpting", "Stage 1: Sculpt mode",
                        "Enter Sculpt Mode"),
             Descriptor("Chapter 4: Sculpting", "Stage 2: Use the Draw brush",
                        "Deform the surface of the sphere with the Draw brush"),
             Descriptor("Chapter 4: Sculpting", "Stage 3: Switch to the Smooth brush",
                        "Select the Smooth brush"),
             Descriptor("Chapter 4: Sculpting", "Stage 4: Switch to the Grab brush",
                        "Select the Grab brush")>>
      [] chapter_num = 5 ->
           <<Descriptor("Chapter 5: Material nodes", "Stage 1: Create a material",
                        "Press the New button"),
             Descriptor("Chapter 5: Material nodes", "Stage 2: Change the colour",
                        "Change Base Color"),
             Descriptor("Chapter 5: Material nodes", "Stage 3: Add an image texture",
                        "Add an image texture and load an image"),
             Descriptor("Chapter 5: Material nodes", "Stage 4: Connect the nodes",
                        "Connect ImageTexture to BaseColor"),
             Descriptor("Chapter 5: Material nodes", "Stage 5: Adjust the look",
                        "Change Roughness or Metallic")>>

(* a faulty variant of get_stage_info that shows the last entry of the
   chapter for a stage past the end *)
get_stage_info_saturating(chapter_num, stage_num) ==
    IF chapter_num \notin 1..5 THEN EmptyDescriptor
    ELSE IF stage_num \in DOMAIN stages(chapter_num)
         THEN stages(chapter_num)[stage_num]
         ELSE IF stage_num > 0 THEN stages(chapter_num)[Len(stages(chapter_num))]
              ELSE EmptyDescriptor

get_stage_info(chapter_num, stage_num) ==
    IF chapter_num \notin 1..5 THEN EmptyDescriptor
    ELSE IF stage_num \in DOMAIN stages(chapter_num)
         THEN stages(chapter_num)[stage_num]
         ELSE EmptyDescriptor

(* info.get(key, '') *)
get(info, key) == IF key \in DOMAIN info THEN info[key] ELSE ""

----------------------------------------------------------------------------
(* StageManager.validate_stage: (is_complete, message) *)

JudgeError == Result(FALSE, Msg("judge_error", <<>>, ""))

ErrorResult == Result(FALSE, Msg("error", <<>>, ""))

(* a faulty variant of IsCube that accepts any active object *)
IsCube_any_object(h) == h.active # "None"

IsCube(h) == h.active # "None" /\ h.active = "Cube"

validate_chapter1(s, h, b) ==
    CASE s = 1 ->
           IF IsCube(h) THEN Result(TRUE, Msg("cube_selected", <<>>, ""))
           ELSE Result(FALSE, Msg("select_cube", <<>>, ""))
      [] s = 2 ->
           IF IsCube(h)
           THEN LET movement == h.location[1] - b.initial_position[1]
                IN  IF Abs(movement - 200) < 10
                    THEN Result(TRUE, Msg("moved_2", <<>>, ""))
                    ELSE Result(FALSE, Msg("movement", <<movement>>, ""))
           ELSE Result(FALSE, Msg("no_cube", <<>>, ""))
      [] s = 3 ->
           IF IsCube(h)
           THEN LET rot == h.rotation[1] - b.initial_rotation[1]
                IN  IF Abs(rot - 450) < 10
                    THEN Result(TRUE, Msg("rotated_45", <<>>, ""))
                    ELSE Result(FALSE, Msg("rotation", <<rot>>, ""))
           ELSE Result(FALSE, Msg("no_cube", <<>>, ""))
      [] s = 4 ->
           IF IsCube(h)
           THEN LET scale_changed == Abs(h.scale[1] - b.initial_scale[1]) > 1
                IN  IF scale_changed
                    THEN Result(TRUE, Msg("scale_changed", <<>>, ""))
                    ELSE Result(FALSE, Msg("change_scale", <<>>, ""))
           ELSE Result(FALSE, Msg("no_cube", <<>>, ""))
      [] OTHER -> JudgeError

(* a faulty variant of validate_chapter2 whose stage 4 accepts either threshold *)
validate_chapter2_either(s, h, b) ==
    IF ~get_view3d_space(h) THEN Result(FALSE, Msg("no_3d_view", <<>>, ""))
    ELSE LET loc_diff_sq == SqDist(h.view_location, b.initial_view_location)
             dist_diff == Abs(h.view_distance - b.initial_view_distance)
         IN  CASE s = 1 ->
                    IF loc_diff_sq > 10 * 10
                    THEN Result(TRUE, Msg("view_moved", <<>>, ""))
                    ELSE Result(FALSE, Msg("pan_view", <<>>, ""))
               [] s = 2 ->
                    IF dist_diff > 50
                    THEN Result(TRUE, Msg("zoomed", <<>>, ""))
                    ELSE Result(FALSE, Msg("zoom_view", <<>>, ""))
               [] s = 3 ->
                    IF loc_diff_sq > 1 * 1 \/ dist_diff > 1
                    THEN Result(TRUE, Msg("view_rotated", <<>>, ""))
                    ELSE Result(FALSE, Msg("rotate_view", <<>>, ""))
               [] s = 4 ->
                    IF loc_diff_sq > 10 * 10 \/ dist_diff > 50
                    THEN Result(TRUE, Msg("view_mastered", <<>>, ""))
                    ELSE Result(FALSE, Msg("pan_and_zoom", <<>>, ""))
               [] OTHER -> JudgeError

(* a faulty variant of validate_chapter2 that looks for the 3D view only in its four stages *)
validate_chapter2_stage_first(s, h, b) ==
    IF s \in 1..4 /\ ~get_view3d_space(h) THEN Result(FALSE, Msg("no_3d_view", <<>>, ""))
    ELSE LET loc_diff_sq == SqDist(h.view_location, b.initial_view_location)
             dist_diff == Abs(h.view_distance - b.initial_view_distance)
         IN  CASE s = 1 ->
                    IF loc_diff_sq > 10 * 10
                    THEN Result(TRUE, Msg("view_moved", <<>>, ""))
                    ELSE Result(FALSE, Msg("pan_view", <<>>, ""))
               [] s = 2 ->
                    IF dist_diff > 50
                    THEN Result(TRUE, Msg("zoomed", <<>>, ""))
                    ELSE Result(FALSE, Msg("zoom_view", <<>>, ""))
               [] s = 3 ->
                    IF loc_diff_sq > 1 * 1 \/ dist_diff > 1
                    THEN Result(TRUE, Msg("view_rotated", <<>>, ""))
                    ELSE Result(FALSE, Msg("rotate_view", <<>>, ""))
               [] s = 4 ->
                    IF loc_diff_sq > 10 * 10 /\ dist_diff > 50
                    THEN Result(TRUE, Msg("view_mastered", <<>>, ""))
                    ELSE Result(FALSE, Msg("pan_and_zoom", <<>>, ""))
               [] OTHER -> JudgeError

validate_chapter2(s, h, b) ==
    IF ~get_view3d_space(h) THEN Result(FALSE, Msg("no_3d_view", <<>>, ""))
    ELSE LET loc_diff_sq == SqDist(h.view_location, b.initial_view_location)
             dist_diff == Abs(h.view_distance - b.initial_view_distance)
         IN  CASE s = 1 ->
                    IF loc_diff_sq > 10 * 10
                    THEN Result(TRUE, Msg("view_moved", <<>>, ""))
                    ELSE Result(FALSE, Msg("pan_view", <<>>, ""))
               [] s = 2 ->
                    IF dist_diff > 50
                    THEN Result(TRUE, Msg("zoomed", <<>>, ""))
                    ELSE Result(FALSE, Msg("zoom_view", <<>>, ""))
               [] s = 3 ->
                    IF loc_diff_sq > 1 * 1 \/ dist_diff > 1
                    THEN Result(TRUE, Msg("view_rotated", <<>>, ""))
                    ELSE Result(FALSE, Msg("rotate_view", <<>>, ""))
               [] s = 4 ->
                    IF loc_diff_sq > 10 * 10 /\ dist_diff > 50
                    THEN Result(TRUE, Msg("view_mastered", <<>>, ""))
                    ELSE Result(FALSE, Msg("pan_and_zoom", <<>>, ""))
               [] OTHER -> JudgeError

validate_chapter3(s, h, b) ==
    CASE s = 1 ->
           IF h.active # "None" /\ h.mode = "EDIT_MESH"
           THEN Result(TRUE, Msg("edit_mode_entered", <<>>, ""))
           ELSE Result(FALSE, Msg("enter_edit_mode", <<>>, ""))
      [] s = 2 ->
           IF get_bm(h)
           THEN IF h.sel_verts >= 3
                THEN Result(TRUE, Msg("verts_selected", <<h.sel_verts>>, ""))
                ELSE Result(FALSE, Msg("select_verts", <<h.sel_verts>>, ""))
           ELSE Result(FALSE, Msg("edit_mode_required", <<>>, ""))
      [] s = 3 ->
           IF get_bm(h) /\ h.sel_edges > 0
           THEN Result(TRUE, Msg("edge_selected", <<>>, ""))
           ELSE Result(FALSE, Msg("select_edge", <<>>, ""))
      [] s = 4 ->
           IF get_bm(h) /\ h.sel_faces > 0
           THEN Result(TRUE, Msg("face_selected", <<>>, ""))
           ELSE Result(FALSE, Msg("select_face", <<>>, ""))
      [] s = 5 ->
           IF get_bm(h) /\ bm_faces(h) > b.initial_face_count
           THEN Result(TRUE, Msg("extruded", <<b.initial_face_count, bm_faces(h)>>, ""))
           ELSE Result(FALSE, Msg("extrude_face", <<>>, ""))
      [] s = 6 ->
           IF get_bm(h) /\ bm_verts(h) > b.initial_vertex_count
           THEN Result(TRUE, Msg("loop_cut", <<b.initial_vertex_count, bm_verts(h)>>, ""))
           ELSE Result(FALSE, Msg("add_loop_cut", <<>>, ""))
      [] OTHER -> JudgeError

validate_brush(h, brush_type_name, done, todo) ==
    IF is_in_sculpt_mode(h)
    THEN LET brush_name == get_current_brush_name(h)
         IN  IF is_brush_type_selected(h, brush_type_name)
             THEN Result(TRUE, Msg(done, <<>>, brush_name))
             ELSE Result(FALSE, Msg(todo, <<>>,
                         IF brush_name # "None" THEN brush_name ELSE "unselected"))
    ELSE Result(FALSE, Msg("sculpt_required", <<>>, ""))

validate_chapter4(s, h, b) ==
    LET sphere == find_sphere(h)
    IN  CASE s = 1 ->
               IF is_in_sculpt_mode(h) /\ sphere
               THEN Result(TRUE, Msg("sculpt_entered", <<>>, ""))
               ELSE Result(FALSE, Msg("enter_sculpt", <<>>, ""))
          [] s = 2 ->
               IF is_in_sculpt_mode(h) /\ sphere
               THEN LET moved == get_vertex_deformation_amount(h.sphere_co,
                                                               b.initial_vertex_positions)
                    IN  IF moved > 5
                        THEN Result(TRUE, Msg("deformed", <<moved>>, ""))
                        ELSE Result(FALSE, Msg("deform_sphere", <<moved>>, ""))
               ELSE Result(FALSE, Msg("sculpt_required", <<>>, ""))
          [] s = 3 -> validate_brush(h, "Smooth", "smooth_selected", "select_smooth")
          [] s = 4 -> validate_brush(h, "Grab", "grab_selected", "select_grab")
          [] OTHER -> JudgeError

validate_bsdf(h, rule(_)) ==
    IF h.active # "None"
    THEN LET material == get_active_material(h)
         IN  IF material.slot
             THEN LET bsdf == get_principled_bsdf(material)
                  IN  IF bsdf # 0 THEN rule(material.nodes[bsdf])
                      ELSE Result(FALSE, Msg("no_principled_bsdf", <<>>, ""))
             ELSE Result(FALSE, Msg("no_active_material", <<>>, ""))
    ELSE Result(FALSE, Msg("select_object", <<>>, ""))

base_color_rule(bsdf) ==
    LET base_color == bsdf.base_color
        default == <<100, 100, 100, 100>>
        changed == \E i \in 1..4 : Abs(base_color[i] - default[i]) > 1
    IN  IF changed
        THEN Result(TRUE, Msg("base_color_changed",
                              <<base_color[1], base_color[2], base_color[3]>>, ""))
        ELSE Result(FALSE, Msg("change_base_color", <<>>, ""))

pbr_rule(bsdf) ==
    LET roughness == bsdf.roughness
        metallic == bsdf.metallic
        default_roughness == 50
        default_metallic == 0
        roughness_changed == Abs(roughness - default_roughness) > 1
        metallic_changed == Abs(metallic - default_metallic) > 1
    IN  IF roughness_changed \/ metallic_changed
        THEN Result(TRUE, Msg("pbr_changed",
                 (IF roughness_changed THEN <<roughness>> ELSE <<>>)
                    \o (IF metallic_changed THEN <<metallic>> ELSE <<>>),
                 IF roughness_changed /\ metallic_changed THEN "Roughness, Metallic"
                 ELSE IF roughness_changed THEN "Roughness" ELSE "Metallic"))
        ELSE Result(FALSE, Msg("change_pbr", <<>>, ""))

validate_chapter5(s, h, b) ==
    CASE s = 1 ->
           IF h.active # "None"
           THEN LET material == get_active_material(h)
                IN  IF material.slot /\ material.use_nodes
                    THEN Result(TRUE, Msg("material_created", <<>>, ""))
                    ELSE Result(FALSE, Msg("create_material", <<>>, ""))
           ELSE Result(FALSE, Msg("select_object", <<>>, ""))
      [] s = 2 -> validate_bsdf(h, base_color_rule)
      [] s = 3 ->
           IF h.active # "None"
           THEN IF check_image_texture_node_exists(h)
                THEN Result(TRUE, Msg("texture_loaded", <<>>, ""))
                ELSE Result(FALSE, Msg("load_texture", <<>>, ""))
           ELSE Result(FALSE, Msg("select_object", <<>>, ""))
      [] s = 4 ->
           IF h.active # "None"
           THEN IF check_correct_node_link(h)
                THEN Result(TRUE, Msg("linked", <<>>, ""))
                ELSE Result(FALSE, Msg("connect_link", <<>>, ""))
           ELSE Result(FALSE, Msg("select_object", <<>>, ""))
      [] s = 5 -> validate_bsdf(h, pbr_rule)
      [] OTHER -> JudgeError

(* a faulty variant of validate_stage without the try/except around the reads *)
validate_stage_unguarded(c, s, h, b) ==
    CASE c = 1 -> validate_chapter1(s, h, b)
      [] c = 2 -> validate_chapter2(s, h, b)
      [] c = 3 -> validate_chapter3(s, h, b)
      [] c = 4 -> validate_chapter4(s, h, b)
      [] c = 5 -> validate_chapter5(s, h, b)
      [] OTHER -> JudgeError

validate_stage(c, s, h, b) ==
    IF h.fault THEN ErrorResult
    ELSE CASE c = 1 -> validate_chapter1(s, h, b)
           [] c = 2 -> validate_chapter2(s, h, b)
           [] c = 3 -> validate_chapter3(s, h, b)
           [] c = 4 -> validate_chapter4(s, h, b)
           [] c = 5 -> validate_chapter5(s, h, b)
           [] OTHER -> JudgeError

----------------------------------------------------------------------------
(* Host states the user can bring about between two callbacks *)

DefaultHost ==
    [mode |-> "OBJECT", objects |-> {"Cube"}, active |-> "Cube",
     location |-> <<0, 0, 0>>, rotation |-> <<0, 0, 0>>, scale |-> <<100, 100, 100>>,
     view |-> TRUE, view_location |-> <<0, 0, 0>>, view_distance |-> 1000,
     verts |-> CubeVerts, edges |-> CubeEdges, faces |-> CubeFaces,
     sel_verts |-> 0, sel_edges |-> 0, sel_faces |-> 0,
     sphere_co |-> <<>>, brush |-> "None", material |-> NoMaterial,
     fault |-> FALSE]

TexturedMaterial ==
    [slot |-> TRUE, use_nodes |-> TRUE,
     nodes |-> <<Node("BSDF_PRINCIPLED", FALSE, <<80, 20, 20, 100>>, 70, 0),
                 Node("TEX_IMAGE", TRUE, <<0, 0, 0, 0>>, 0, 0)>>,
     links |-> {Link(2, "Color", 1, "Base Color")}]

(* the cube moved by 2.05, turned by 45 degrees and scaled, with a material
   whose image texture is linked and whose base colour and roughness changed *)
WorkedHost ==
    [DefaultHost EXCEPT !.location = <<205, 0, 0>>, !.rotation = <<450, 0, 0>>,
                        !.scale = <<150, 100, 100>>, !.material = TexturedMaterial]

(* every object deleted *)
EmptyHost ==
    [DefaultHost EXCEPT !.objects = {}, !.active = "None"]

FaultHost == [DefaultHost EXCEPT !.fault = TRUE]

HostScenarios == {DefaultHost, WorkedHost, EmptyHost, FaultHost}

(* no VIEW_3D area on the screen *)
NoViewHost == [DefaultHost EXCEPT !.view = FALSE]

(* Host states on which validate_stage is evaluated as a function *)
ValidatorHosts == HostScenarios \cup {NoViewHost}

----------------------------------------------------------------------------
(* TUTORIAL_PG_Properties *)

(* an IntProperty with min and max stores the assigned value clamped *)
ClampStage(v) == IF v < StageMin THEN StageMin ELSE IF v > StageMax THEN StageMax ELSE v

DefaultBaseline ==
    [initial_position |-> <<0, 0, 0>>, initial_rotation |-> <<0, 0, 0>>,
     initial_scale |-> <<100, 100, 100>>,
     initial_view_distance |-> 0, initial_view_location |-> <<0, 0, 0>>,
     initial_vertex_count |-> 0, initial_edge_count |-> 0, initial_face_count |-> 0,
     initial_vertex_positions |-> <<>>]

Idle == [state |-> "idle", since_check |-> 0]

(* id: the chapter argument of Goto, and for Advance 1 when stage_complete
   was set at the call, else 0 *)
Event(op, id, ok, m) == [op |-> op, id |-> id, ok |-> ok, msg |-> m]

(* the state after registration, without the history of stale instances *)
Fresh ==
    /\ current_chapter = 1
    /\ current_stage = 1
    /\ stage_complete = FALSE
    /\ monitoring_active = FALSE
    /\ baseline = DefaultBaseline
    /\ host = DefaultHost
    /\ ctrl = [i \in Controllers |-> Idle]
    /\ last = Event("Init", 0, TRUE, Msg("", <<>>, ""))
    /\ okSinceCall = FALSE
    /\ okSinceClear = FALSE

Init == Fresh /\ stale = [tracked |-> FALSE, ctrls |-> {}]

(* the same initial state, with the history of stale instances recorded *)
TrackedInit == Fresh /\ stale = [tracked |-> TRUE, ctrls |-> {}]

(* the instances whose timer is registered *)
Registered == {i \in DOMAIN ctrl : ctrl[i].state = "running"}

(* stale after an operation; cleared: it assigned monitoring_active = False *)
stale_after(cleared) ==
    IF stale.tracked /\ cleared THEN [stale EXCEPT !.ctrls = Registered] ELSE stale

----------------------------------------------------------------------------
(* TUTORIAL_OT_setup_stage.execute

   The host operators the handler calls outside an inner try can raise; the
   handler's outer except then reports the error and returns CANCELLED.  The
   input  f  names where that happens: 0 nowhere, 1 at the first unguarded
   host call of the chapter's branch (always, when host.fault), 2 at the first host call of the
   stage-6 block of chapter 3.                                              *)

(* select_all + delete inside try/except: pass; both poll only in object mode *)
delete_all(h) ==
    IF h.mode = "OBJECT"
    THEN [h EXCEPT !.objects = {}, !.active = "None", !.material = NoMaterial,
                   !.sphere_co = <<>>, !.location = <<0, 0, 0>>,
                   !.rotation = <<0, 0, 0>>, !.scale = <<100, 100, 100>>]
    ELSE h

(* bpy.ops.mesh.primitive_*_add followed by  active_object.name = name :
   in edit mode the geometry joins the edited mesh, otherwise a new object
   becomes the active one *)
add_primitive(h, name) ==
    LET g == IF h.mode = "EDIT_MESH"
             THEN [h EXCEPT !.objects = (@ \ {h.active}) \cup {name}, !.active = name]
             ELSE [h EXCEPT !.objects = @ \cup {name}, !.active = name,
                            !.mode = "OBJECT", !.material = NoMaterial,
                            !.location = <<0, 0, 0>>, !.rotation = <<0, 0, 0>>,
                            !.scale = <<100, 100, 100>>]
    IN  IF name = "Sphere"
        THEN [g EXCEPT !.sphere_co = SphereCo]
        ELSE IF h.mode = "EDIT_MESH"
             THEN [g EXCEPT !.verts = Min2(@ + CubeVerts, MeshCap * CubeVerts),
                            !.edges = Min2(@ + CubeEdges, MeshCap * CubeEdges),
                            !.faces = Min2(@ + CubeFaces, MeshCap * CubeFaces)]
             ELSE [g EXCEPT !.verts = CubeVerts, !.edges = CubeEdges, !.faces = CubeFaces]

(* lines 773-792: the cube made active, edit mode entered, everything deselected *)
enter_edit_deselected(h) ==
    [h EXCEPT !.active = "Cube", !.mode = "EDIT_MESH",
              !.sel_verts = 0, !.sel_edges = 0, !.sel_faces = 0]

(* lines 802-821: the cube deleted and a fresh one created and deselected *)
fresh_cube(h) ==
    [h EXCEPT !.objects = @ \cup {"Cube"}, !.active = "Cube", !.mode = "EDIT_MESH",
              !.material = NoMaterial,
              !.location = <<0, 0, 0>>, !.rotation = <<0, 0, 0>>, !.scale = <<100, 100, 100>>,
              !.verts = CubeVerts, !.edges = CubeEdges, !.faces = CubeFaces,
              !.sel_verts = 0, !.sel_edges = 0, !.sel_faces = 0]

(* lines 870-882: the first mesh object of bpy.data.objects, or a new cube *)
material_object(h) ==
    LET g == IF h.active # "None" THEN [h EXCEPT !.mode = "OBJECT"] ELSE h
    IN  IF "Cube" \in g.objects THEN [g EXCEPT !.active = "Cube"]
        ELSE IF "Sphere" \in g.objects THEN [g EXCEPT !.active = "Sphere"]
        ELSE add_primitive(g, "Cube")

SetupFaultPoints(c, s, h) ==
    CASE c = 2 -> {0}
      [] c = 3 -> IF find_cube(h) THEN (IF s = 6 THEN {0, 1, 2} ELSE {0, 1}) ELSE {0}
      [] OTHER -> IF h.fault THEN {1} ELSE {0, 1}

capture_counts(b, h) ==
    LET n == get_mesh_element_count(h, "Cube")
    IN  [b EXCEPT !.initial_vertex_count = n[1], !.initial_edge_count = n[2],
                  !.initial_face_count = n[3]]

setup_host(c, s, h, f) ==
    CASE h.fault -> h
      [] c = 1 ->
           IF f = 1 THEN delete_all(h)
           ELSE [add_primitive(delete_all(h), "Cube") EXCEPT
                    !.location = <<0, 0, 0>>, !.rotation = <<0, 0, 0>>,
                    !.scale = <<100, 100, 100>>]
      [] c = 2 -> h
      [] c = 3 ->
           IF ~find_cube(h) THEN h
           ELSE IF f = 1
                THEN [h EXCEPT !.active = "Cube",
                               !.mode = IF h.mode = "EDIT_MESH" THEN "OBJECT" ELSE h.mode]
                ELSE IF s = 6 /\ f = 0 THEN fresh_cube(enter_edit_deselected(h))
                     ELSE enter_edit_deselected(h)
      [] c = 4 ->
           IF f = 1 THEN delete_all(h)
           ELSE [add_primitive(delete_all(h), "Sphere") EXCEPT !.mode = "SCULPT"]
      [] c = 5 ->
           IF f = 1 THEN (IF h.active # "None" THEN [h EXCEPT !.mode = "OBJECT"] ELSE h)
           ELSE material_object(h)
      [] OTHER -> h

(* a faulty variant of setup_baseline that starts every snapshot from the defaults *)
setup_baseline_from_defaults(c, s, h, b0, f) ==
    LET b == DefaultBaseline IN
        CASE c = 1 ->
               IF f = 1 THEN b
               ELSE LET cube == setup_host(c, s, h, f)
                    IN  [b EXCEPT !.initial_position = cube.location,
                                  !.initial_rotation = cube.rotation,
                                  !.initial_scale = cube.scale]
          [] c = 2 ->
               IF get_view3d_space(h)
               THEN [b EXCEPT !.initial_view_distance = h.view_distance,
                              !.initial_view_location = h.view_location]
               ELSE b
          [] c = 3 ->
               IF ~find_cube(h) \/ f = 1 THEN b
               ELSE IF s = 6 /\ f = 0
                    THEN capture_counts(b, fresh_cube(enter_edit_deselected(h)))
                    ELSE capture_counts(b, enter_edit_deselected(h))
          [] c = 4 ->
               IF f = 1 THEN b
               ELSE LET sphere == setup_host(c, s, h, f)
                    IN  [b EXCEPT !.initial_vertex_positions = sphere.sphere_co,
                                  !.initial_vertex_count =
                                       get_mesh_element_count(sphere, "Sphere")[1]]
          [] OTHER -> b

setup_baseline(c, s, h, b, f) ==
    CASE c = 1 ->
           IF f = 1 THEN b
           ELSE LET cube == setup_host(c, s, h, f)
                IN  [b EXCEPT !.initial_position = cube.location,
                              !.initial_rotation = cube.rotation,
                              !.initial_scale = cube.scale]
      [] c = 2 ->
           IF get_view3d_space(h)
           THEN [b EXCEPT !.initial_view_distance = h.view_distance,
                          !.initial_view_location = h.view_location]
           ELSE b
      [] c = 3 ->
           IF ~find_cube(h) \/ f = 1 THEN b
           ELSE IF s = 6 /\ f = 0
                THEN capture_counts(b, fresh_cube(enter_edit_deselected(h)))
                ELSE capture_counts(b, enter_edit_deselected(h))
      [] c = 4 ->
           IF f = 1 THEN b
           ELSE LET sphere == setup_host(c, s, h, f)
                IN  [b EXCEPT !.initial_vertex_positions = sphere.sphere_co,
                              !.initial_vertex_count =
                                   get_mesh_element_count(sphere, "Sphere")[1]]
      [] OTHER -> b

(* a faulty variant of setup_flags that forgets to clear stage_complete *)
setup_flags_keeping_complete(f, complete, monitoring) ==
    IF f = 0 THEN [complete |-> complete, monitoring |-> TRUE]
    ELSE [complete |-> complete, monitoring |-> monitoring]

(* lines 890-891 are reached only when nothing raised; the except clause of
   lines 898-903 assigns neither flag *)
setup_flags(f, complete, monitoring) ==
    IF f = 0 THEN [complete |-> FALSE, monitoring |-> TRUE]
    ELSE [complete |-> complete, monitoring |-> monitoring]

setup_stage ==
    \E f \in SetupFaultPoints(current_chapter, current_stage, host) :
        /\ host' = setup_host(current_chapter, current_stage, host, f)
        /\ baseline' = setup_baseline(current_chapter, current_stage, host, baseline, f)
        /\ stage_complete' = setup_flags(f, stage_complete, monitoring_active).complete
        /\ monitoring_active' = setup_flags(f, stage_complete, monitoring_active).monitoring
        /\ last' = IF f = 0 THEN Event("Setup", 0, TRUE, Msg("setup_done", <<>>, ""))
                   ELSE Event("Setup", 0, FALSE, Msg("error", <<>>, ""))
        /\ okSinceCall' = FALSE
        /\ okSinceClear' = IF f = 0 THEN FALSE ELSE okSinceClear
        /\ UNCHANGED <<current_chapter, current_stage, ctrl, stale>>

----------------------------------------------------------------------------
(* TUTORIAL_OT_validate_stage.execute *)

(* a faulty variant of validate_complete that never records a success *)
validate_complete_never(is_complete, complete) == complete

validate_complete(is_complete, complete) == IF is_complete THEN TRUE ELSE complete

(* a faulty variant of validate_stage_execute whose validator takes a new
   snapshot of the object's position while it judges *)
validate_stage_execute_recapturing ==
    LET r == validate_stage(current_chapter, current_stage, host, baseline)
    IN  /\ stage_complete' = validate_complete(r.ok, stage_complete)
        /\ baseline' = [baseline EXCEPT !.initial_position = host.location]
        /\ last' = Event("Validate", 0, r.ok, r.msg)
        /\ okSinceCall' = (okSinceCall \/ r.ok)
        /\ okSinceClear' = (okSinceClear \/ r.ok)
        /\ UNCHANGED <<current_chapter, current_stage, monitoring_active, host, ctrl, stale>>

validate_stage_execute ==
    LET r == validate_stage(current_chapter, current_stage, host, baseline)
    IN  /\ stage_complete' = validate_complete(r.ok, stage_complete)
        /\ last' = Event("Validate", 0, r.ok, r.msg)
        /\ okSinceCall' = (okSinceCall \/ r.ok)
        /\ okSinceClear' = (okSinceClear \/ r.ok)
        /\ UNCHANGED <<current_chapter, current_stage, monitoring_active,
                       baseline, host, ctrl, stale>>

----------------------------------------------------------------------------
(* TUTORIAL_OT_next_stage.execute *)

(* a faulty variant of max_stages_per_chapter with six stages in every chapter *)
max_stages_per_chapter_uniform(c) == 6

max_stages_per_chapter(c) ==
    CASE c = 1 -> 4 [] c = 2 -> 4 [] c = 3 -> 6 [] c = 4 -> 4 [] c = 5 -> 5 [] OTHER -> 4

(* a faulty variant of next_stage that clears the flags at the last position too *)
next_stage_clearing_at_end(c, s, complete, monitoring) ==
    LET max_stages == max_stages_per_chapter(c)
    IN  IF s < max_stages
        THEN [chapter |-> c, stage |-> ClampStage(s + 1),
              complete |-> FALSE, monitoring |-> FALSE, moved |-> TRUE]
        ELSE IF c < LastChapter
             THEN [chapter |-> c + 1, stage |-> ClampStage(1),
                   complete |-> FALSE, monitoring |-> FALSE, moved |-> TRUE]
             ELSE [chapter |-> c, stage |-> s,
                   complete |-> FALSE, monitoring |-> FALSE, moved |-> FALSE]

(* a faulty variant of next_stage that leaves monitoring_active set when it moves *)
next_stage_keeping_monitoring(c, s, complete, monitoring) ==
    LET max_stages == max_stages_per_chapter(c)
    IN  IF s < max_stages
        THEN [chapter |-> c, stage |-> ClampStage(s + 1),
              complete |-> FALSE, monitoring |-> monitoring, moved |-> TRUE]
        ELSE IF c < LastChapter
             THEN [chapter |-> c + 1, stage |-> ClampStage(1),
                   complete |-> FALSE, monitoring |-> monitoring, moved |-> TRUE]
             ELSE [chapter |-> c, stage |-> s,
                   complete |-> complete, monitoring |-> monitoring, moved |-> FALSE]

(* a faulty variant of next_stage that refuses to move while the stage is not complete *)
next_stage_gated(c, s, complete, monitoring) ==
    LET max_stages == max_stages_per_chapter(c)
    IN  IF ~complete
        THEN [chapter |-> c, stage |-> s,
              complete |-> complete, monitoring |-> monitoring, moved |-> FALSE]
        ELSE IF s < max_stages
        THEN [chapter |-> c, stage |-> ClampStage(s + 1),
              complete |-> FALSE, monitoring |-> FALSE, moved |-> TRUE]
        ELSE IF c < LastChapter
             THEN [chapter |-> c + 1, stage |-> ClampStage(1),
                   complete |-> FALSE, monitoring |-> FALSE, moved |-> TRUE]
             ELSE [chapter |-> c, stage |-> s,
                   complete |-> complete, monitoring |-> monitoring, moved |-> FALSE]

(* the properties after the call: the position, the two flags, and whether
   the handler went past its early return *)
next_stage(c, s, complete, monitoring) ==
    LET max_stages == max_stages_per_chapter(c)
    IN  IF s < max_stages
        THEN [chapter |-> c, stage |-> ClampStage(s + 1),
              complete |-> FALSE, monitoring |-> FALSE, moved |-> TRUE]
        ELSE IF c < LastChapter
             THEN [chapter |-> c + 1, stage |-> ClampStage(1),
                   complete |-> FALSE, monitoring |-> FALSE, moved |-> TRUE]
             ELSE [chapter |-> c, stage |-> s,
                   complete |-> complete, monitoring |-> monitoring, moved |-> FALSE]

next_stage_execute ==
    LET p == next_stage(current_chapter, current_stage, stage_complete, monitoring_active)
    IN  /\ current_chapter' = p.chapter
        /\ current_stage' = p.stage
        /\ stage_complete' = p.complete
        /\ monitoring_active' = p.monitoring
        /\ last' = IF p.moved
                   THEN Event("Advance", IF stage_complete THEN 1 ELSE 0, TRUE,
                              Msg("stage", <<p.chapter, p.stage>>, ""))
                   ELSE Event("Advance", IF stage_complete THEN 1 ELSE 0, FALSE,
                              Msg("finished", <<>>, ""))
        /\ okSinceCall' = FALSE
        /\ okSinceClear' = IF p.moved THEN FALSE ELSE okSinceClear
        /\ stale' = stale_after(p.moved)
        /\ UNCHANGED <<baseline, host, ctrl>>

----------------------------------------------------------------------------
(* TUTORIAL_OT_reset.execute and TUTORIAL_OT_goto_chapter.execute *)

(* a faulty variant of goto that leaves the stage counter where it was *)
goto_keeping_stage(chapter) ==
    [chapter |-> chapter, stage |-> current_stage, complete |-> FALSE, monitoring |-> FALSE]

goto(chapter) ==
    [chapter |-> chapter, stage |-> ClampStage(1), complete |-> FALSE, monitoring |-> FALSE]

(* a faulty variant of reset_execute that also puts the snapshot back to its defaults *)
reset_execute_clearing_baseline ==
    LET p == goto(1)
    IN  /\ current_chapter' = p.chapter
        /\ current_stage' = p.stage
        /\ stage_complete' = p.complete
        /\ monitoring_active' = p.monitoring
        /\ baseline' = DefaultBaseline
        /\ last' = Event("Reset", 0, TRUE, Msg("reset_done", <<>>, ""))
        /\ okSinceCall' = FALSE
        /\ okSinceClear' = FALSE
        /\ stale' = stale_after(TRUE)
        /\ UNCHANGED <<host, ctrl>>

reset_execute ==
    LET p == goto(1)
    IN  /\ current_chapter' = p.chapter
        /\ current_stage' = p.stage
        /\ stage_complete' = p.complete
        /\ monitoring_active' = p.monitoring
        /\ last' = Event("Reset", 0, TRUE, Msg("reset_done", <<>>, ""))
        /\ okSinceCall' = FALSE
        /\ okSinceClear' = FALSE
        /\ stale' = stale_after(TRUE)
        /\ UNCHANGED <<baseline, host, ctrl>>

goto_chapter_execute ==
    \E chapter \in Chapters :
        LET p == goto(chapter)
        IN  /\ current_chapter' = p.chapter
            /\ current_stage' = p.stage
            /\ stage_complete' = p.complete
            /\ monitoring_active' = p.monitoring
            /\ last' = Event("Goto", chapter, TRUE, Msg("moved_to_chapter", <<chapter>>, ""))
            /\ okSinceCall' = FALSE
            /\ okSinceClear' = FALSE
            /\ stale' = stale_after(TRUE)
            /\ UNCHANGED <<baseline, host, ctrl>>

----------------------------------------------------------------------------
(* TUTORIAL_OT_monitoring: execute starts an instance, modal handles a TIMER event *)

monitoring_execute ==
    \E i \in DOMAIN ctrl :
        /\ ctrl[i].state = "idle"
        /\ \A j \in DOMAIN ctrl : j < i => ctrl[j].state # "idle"
        /\ ctrl' = [ctrl EXCEPT ![i] = [state |-> "running", since_check |-> 0]]
        /\ last' = Event("Start", 0, TRUE, Msg("", <<>>, ""))
        /\ UNCHANGED <<current_chapter, current_stage, stage_complete, monitoring_active,
                       baseline, host, okSinceCall, okSinceClear, stale>>

(* a faulty variant of check_stage that ignores the verdict *)
check_stage_ignoring(is_complete, complete) == complete

(* a faulty variant of check_stage that stores every verdict *)
check_stage_following(is_complete, complete) == is_complete

(* a faulty variant of check_stage that marks the stage complete on every evaluation *)
check_stage_always(is_complete, complete) == TRUE

(* StageManager.check_stage: the new value of props.stage_complete *)
check_stage(is_complete, complete) ==
    IF is_complete /\ ~complete THEN TRUE ELSE complete

(* a faulty variant of modal_branch that keeps its timer while monitoring is off *)
modal_branch_idling(monitoring, undo_depth, since_check) ==
    IF ~monitoring THEN "wait"
    ELSE IF is_undo_running(undo_depth) THEN "skip"
    ELSE IF since_check > CheckAfter THEN "check"
    ELSE "wait"

(* a faulty variant of modal_branch that looks at the elapsed time before the undo *)
modal_branch_undo_late(monitoring, undo_depth, since_check) ==
    IF ~monitoring THEN "finish"
    ELSE IF since_check > CheckAfter THEN "check"
    ELSE IF is_undo_running(undo_depth) THEN "skip"
    ELSE "wait"

(* a faulty variant of modal_branch that evaluates from 0.2 s on *)
modal_branch_at_least(monitoring, undo_depth, since_check) ==
    IF ~monitoring THEN "finish"
    ELSE IF is_undo_running(undo_depth) THEN "skip"
    ELSE IF since_check >= CheckAfter THEN "check"
    ELSE "wait"

(* what modal does on a TIMER event: "finish", "skip" (undo running),
   "check" (check_stage called) or "wait" (not more than 0.2 s since the last check) *)
modal_branch(monitoring, undo_depth, since_check) ==
    IF ~monitoring THEN "finish"
    ELSE IF is_undo_running(undo_depth) THEN "skip"
    ELSE IF since_check > CheckAfter THEN "check"
    ELSE "wait"

(* a TIMER event of instance i, with undo_depth read from the window manager *)
modal(i, undo_depth) ==
        /\ ctrl[i].state = "running"
        /\ LET br == modal_branch(monitoring_active, undo_depth, ctrl[i].since_check)
               r == validate_stage(current_chapter, current_stage, host, baseline)
           IN  /\ ctrl' = CASE br = "finish" -> [ctrl EXCEPT ![i] = [state |-> "finished",
                                                                   since_check |-> 0]]
                            [] br = "check" -> [ctrl EXCEPT ![i].since_check = 0]
                            [] OTHER -> ctrl
               /\ stage_complete' = IF br = "check" THEN check_stage(r.ok, stage_complete)
                                    ELSE stage_complete
               /\ last' = Event("Tick", 0, br = "check" /\ r.ok, Msg(br, <<>>, ""))
               /\ okSinceCall' = (okSinceCall \/ (br = "check" /\ r.ok))
               /\ okSinceClear' = (okSinceClear \/ (br = "check" /\ r.ok))
               /\ stale' = IF br = "finish" THEN [stale EXCEPT !.ctrls = @ \ {i}] ELSE stale
        /\ UNCHANGED <<current_chapter, current_stage, monitoring_active, baseline, host>>

monitoring_modal ==
    \E i \in DOMAIN ctrl, undo_depth \in {0, 1} : modal(i, undo_depth)

----------------------------------------------------------------------------
(* TUTORIAL_PT_main.draw: the panel shows the descriptor of the position and
   "stage st/max_stages"; it assigns no property *)

draw ==
    LET info == get_stage_info(current_chapter, current_stage)
    IN  /\ last' = Event("Draw", 0, TRUE,
                         Msg(get(info, "name"),
                             <<current_stage, max_stages_per_chapter(current_chapter)>>,
                             get(info, "title")))
        /\ UNCHANGED <<current_chapter, current_stage, stage_complete, monitoring_active,
                       baseline, host, ctrl, okSinceCall, okSinceClear, stale>>

----------------------------------------------------------------------------
(* The environment: the user changes the scene, time passes *)

UserEdit ==
    /\ host' \in HostScenarios \ {host}
    /\ last' = Event("User", 0, TRUE, Msg("", <<>>, ""))
    /\ UNCHANGED <<current_chapter, current_stage, stage_complete, monitoring_active,
                   baseline, ctrl, okSinceCall, okSinceClear, stale>>

(* a tenth of a second passes *)
TimePasses ==
    /\ \E i \in DOMAIN ctrl : ctrl[i].state = "running" /\ ctrl[i].since_check < MaxElapsed
    /\ ctrl' = [i \in DOMAIN ctrl |->
                  IF ctrl[i].state = "running" /\ ctrl[i].since_check < MaxElapsed
                  THEN [ctrl[i] EXCEPT !.since_check = @ + 1]
                  ELSE ctrl[i]]
    /\ UNCHANGED <<current_chapter, current_stage, stage_complete, monitoring_active,
                   baseline, host, last, okSinceCall, okSinceClear, stale>>

Next ==
    \/ setup_stage
    \/ validate_stage_execute
    \/ next_stage_execute
    \/ reset_execute
    \/ goto_chapter_execute
    \/ monitoring_execute
    \/ monitoring_modal
    \/ UserEdit
    \/ TimePasses

Spec == Init /\ [][Next]_vars

(* the same behaviours under the scheduling of the host: time goes on, and
   the timer of every registered instance keeps firing at moments when no
   undo is in progress *)
Fairness ==
    /\ WF_vars(TimePasses)
    /\ \A i \in Controllers : WF_vars(modal(i, 0))

LiveSpec == Init /\ [][Next]_vars /\ Fairness

(* the operations in the orders the panel offers them: Setup, the start of
   an instance, Validate, Reset and the chapter buttons are always drawn,
   the Next button only while stage_complete is set *)
PanelNext ==
    \/ setup_stage
    \/ validate_stage_execute
    \/ stage_complete /\ next_stage_execute
    \/ reset_execute
    \/ goto_chapter_execute
    \/ monitoring_execute
    \/ monitoring_modal
    \/ UserEdit
    \/ TimePasses

PanelSpec == Init /\ [][PanelNext]_vars

(* the same behaviours, with the history of stale instances recorded *)
TrackedSpec == TrackedInit /\ [][Next]_vars

(* validate_stage as a function of its inputs: chapter and stage anywhere in
   the range of their properties, the host in ValidatorHosts, and Validate
   the only operation *)
ValidatorInit ==
    /\ current_chapter \in Chapters
    /\ current_stage \in StageMin..StageMax
    /\ stage_complete = FALSE
    /\ monitoring_active = FALSE
    /\ baseline = DefaultBaseline
    /\ host \in ValidatorHosts
    /\ ctrl = [i \in Controllers |-> Idle]
    /\ last = Event("Init", 0, TRUE, Msg("", <<>>, ""))
    /\ okSinceCall = FALSE
    /\ okSinceClear = FALSE
    /\ stale = [tracked |-> FALSE, ctrls |-> {}]

ValidatorNext == validate_stage_execute

ValidatorSpec == ValidatorInit /\ [][ValidatorNext]_vars

----------------------------------------------------------------------------
(* The stage rules of validate_stage as functions of the host state and the
   snapshot: the inputs are drawn around the thresholds of each rule, the
   stage anywhere in the range of its property, and Validate is the only
   operation.                                                               *)

Inputs(c, hosts, baselines) ==
    /\ current_chapter = c
    /\ current_stage \in StageMin..StageMax
    /\ stage_complete = FALSE
    /\ monitoring_active = FALSE
    /\ baseline \in baselines
    /\ host \in hosts
    /\ ctrl = [i \in Controllers |-> Idle]
    /\ last = Event("Init", 0, TRUE, Msg("", <<>>, ""))
    /\ okSinceCall = FALSE
    /\ okSinceClear = FALSE
    /\ stale = [tracked |-> FALSE, ctrls |-> {}]

(* chapter 1: the active object is the cube, another object or none; its X
   position lies around baseline + 2.0 -/+ 0.1 and its scale differs from the
   baseline on no axis, on X by 0.01 or more, on Y only, or on Z only *)
TransformHosts ==
    {[DefaultHost EXCEPT !.active = a,
                         !.objects = IF a = "Sphere" THEN {"Cube", "Sphere"} ELSE {"Cube"},
                         !.location = <<x, 0, 0>>, !.scale = sc] :
        a \in {"Cube", "Sphere", "None"},
        x \in {0, 180, 190, 191, 205, 209, 210, 220},
        sc \in {<<100, 100, 100>>, <<101, 100, 100>>, <<102, 100, 100>>,
                <<98, 100, 100>>, <<100, 150, 100>>, <<100, 100, 50>>}}

TransformBaselines ==
    {[DefaultBaseline EXCEPT !.initial_position = <<x, 0, 0>>] : x \in {0, 10}}

(* chapter 5: node graphs with one or two image-texture nodes and one or two
   principled nodes, and at most one link between an image-texture node and a
   principled node, out of the Color or Alpha output, into the Base Color or
   Roughness input *)
ImageNode == Node("TEX_IMAGE", TRUE, <<0, 0, 0, 0>>, 0, 0)

NodeGraphs ==
    {<<DefaultBsdf>>, <<ImageNode>>, <<DefaultBsdf, ImageNode>>,
     <<ImageNode, ImageNode, DefaultBsdf>>, <<DefaultBsdf, DefaultBsdf, ImageNode>>}

NodeLinks(nodes) ==
    {Link(i, out, j, in) :
        i \in {k \in 1..Len(nodes) : nodes[k].type = "TEX_IMAGE"},
        out \in {"Color", "Alpha"},
        j \in {k \in 1..Len(nodes) : nodes[k].type = "BSDF_PRINCIPLED"},
        in \in {"Base Color", "Roughness"}}

MaterialHosts ==
    {[DefaultHost EXCEPT !.active = a, !.material = m] :
        a \in {"Cube", "None"},
        m \in {NoMaterial, [NewMaterial EXCEPT !.use_nodes = FALSE]} \cup
              UNION {{[NewMaterial EXCEPT !.nodes = nodes, !.links = links] :
                          links \in {{}} \cup {{l} : l \in NodeLinks(nodes)}} :
                     nodes \in NodeGraphs}}

(* chapter 2: the view moved by 0, 0.01, 0.02, 0.1 (on one axis and as
   0.06, 0.08), 0.11 or 0.2 and the distance changed by 0, 0.01, 0.02, 0.3,
   0.5, 0.51 or 0.6 either way, against a baseline of location 0 and
   distance 10; and a screen without 3D view *)
ViewHosts ==
    {[DefaultHost EXCEPT !.view = v, !.view_location = loc, !.view_distance = d] :
        v \in BOOLEAN,
        loc \in {<<0, 0, 0>>, <<1, 0, 0>>, <<0, 2, 0>>, <<10, 0, 0>>, <<6, 8, 0>>,
                 <<0, 0, 11>>, <<20, 0, 0>>},
        d \in {1000, 1001, 998, 1030, 950, 1051, 1060, 940}}

ViewBaselines ==
    {[DefaultBaseline EXCEPT !.initial_view_distance = 1000]}

(* chapter 4: a sphere of n vertices whose first k vertices lie d from their
   place (d = 0.001 or 0.0011), in sculpt or object mode, or no sphere at
   all; the snapshot holds the places of the first m vertices *)
SphereMoved(n, k, d) ==
    [i \in 1..n |-> IF i <= k THEN <<1000 * i + d, 0, 0>> ELSE <<1000 * i, 0, 0>>]

SculptHosts ==
    {[DefaultHost EXCEPT !.objects = objs,
                         !.active = IF "Sphere" \in objs THEN "Sphere" ELSE "Cube",
                         !.mode = m, !.brush = "Draw",
                         !.sphere_co = IF "Sphere" \in objs THEN SphereMoved(n, k, d) ELSE <<>>] :
        objs \in {{"Sphere"}, {"Cube"}},
        m \in {"SCULPT", "OBJECT"},
        n \in {0, NumSphereVerts - 1, NumSphereVerts},
        k \in 0..NumSphereVerts,
        d \in {10, 11}}

SculptBaselines ==
    {[DefaultBaseline EXCEPT !.initial_vertex_positions = SubSeq(SphereCo, 1, m),
                             !.initial_vertex_count = m] :
        m \in {0, 5, NumSphereVerts}}

RuleInit ==
    \/ Inputs(1, TransformHosts, TransformBaselines)
    \/ Inputs(4, SculptHosts, SculptBaselines)
    \/ Inputs(2, ViewHosts, ViewBaselines)
    \/ Inputs(5, MaterialHosts, {DefaultBaseline})

RuleNext == validate_stage_execute

RuleSpec == RuleInit /\ [][RuleNext]_vars

----------------------------------------------------------------------------
(* The stage catalog and the dispatch of validate_stage as functions of
   (chapter, stage), each argument drawn from one below to one above the
   numbers the tables know; the panel is drawn and Validate is run.         *)

CatalogInit ==
    /\ current_chapter \in 0..(LastChapter + 1)
    /\ current_stage \in 0..(StageMax + 2)
    /\ stage_complete = FALSE
    /\ monitoring_active = FALSE
    /\ baseline = DefaultBaseline
    /\ host \in ValidatorHosts
    /\ ctrl = [i \in Controllers |-> Idle]
    /\ last = Event("Init", 0, TRUE, Msg("", <<>>, ""))
    /\ okSinceCall = FALSE
    /\ okSinceClear = FALSE
    /\ stale = [tracked |-> FALSE, ctrls |-> {}]

CatalogNext ==
    \/ draw
    \/ validate_stage_execute

CatalogSpec == CatalogInit /\ [][CatalogNext]_vars

----------------------------------------------------------------------------
(* Setup followed by Validate, from every position the properties can hold
   and from scenes that have a cube, no object, no 3D view, or a sphere being
   edited and no cube                                                       *)

SphereEditHost ==
    [DefaultHost EXCEPT !.objects = {"Sphere"}, !.active = "Sphere",
                        !.mode = "EDIT_MESH", !.sphere_co = SphereCo]

SetupScenes == ValidatorHosts \cup {SphereEditHost}

SetupInit ==
    /\ current_chapter \in Chapters
    /\ current_stage \in StageMin..StageMax
    /\ stage_complete = FALSE
    /\ monitoring_active = FALSE
    /\ baseline = DefaultBaseline
    /\ host \in SetupScenes
    /\ ctrl = [i \in Controllers |-> Idle]
    /\ last = Event("Init", 0, TRUE, Msg("", <<>>, ""))
    /\ okSinceCall = FALSE
    /\ okSinceClear = FALSE
    /\ stale = [tracked |-> FALSE, ctrls |-> {}]

SetupNext ==
    \/ setup_stage
    \/ validate_stage_execute

SetupSpec == SetupInit /\ [][SetupNext]_vars

----------------------------------------------------------------------------
(* The life of the poll instances when the start button can be pressed once
   more than in the other specifications: Setup, the chapter buttons, the
   start of an instance, its TIMER events and the passing of time.          *)

RestartInit ==
    /\ current_chapter = 1
    /\ current_stage = 1
    /\ stage_complete = FALSE
    /\ monitoring_active = FALSE
    /\ baseline = DefaultBaseline
    /\ host = DefaultHost
    /\ ctrl = [i \in 1..(MaxControllers + 1) |-> Idle]
    /\ last = Event("Init", 0, TRUE, Msg("", <<>>, ""))
    /\ okSinceCall = FALSE
    /\ okSinceClear = FALSE
    /\ stale = [tracked |-> FALSE, ctrls |-> {}]

RestartNext ==
    \/ setup_stage
    \/ goto_chapter_execute
    \/ monitoring_execute
    \/ monitoring_modal
    \/ TimePasses

RestartSpec == RestartInit /\ [][RestartNext]_vars

----------------------------------------------------------------------------
(* Properties *)

position == <<current_chapter, current_stage>>

(* the steps of each operation; the record of the last operation is looked
   at first, the operation's own relation second *)
Setup == last'.op = "Setup" /\ setup_stage
Validate == last'.op = "Validate" /\ validate_stage_execute
Advance == last'.op = "Advance" /\ next_stage_execute
Reset == last'.op = "Reset" /\ reset_execute
GotoChapter == last'.op = "Goto" /\ goto_chapter_execute
PollTick == last'.op = "Tick" /\ monitoring_modal

(* the positions in the order the stage table {1:4, 2:4, 3:6, 4:4, 5:5} gives them *)
TableSequence ==
    <<<<1, 1>>, <<1, 2>>, <<1, 3>>, <<1, 4>>,
      <<2, 1>>, <<2, 2>>, <<2, 3>>, <<2, 4>>,
      <<3, 1>>, <<3, 2>>, <<3, 3>>, <<3, 4>>, <<3, 5>>, <<3, 6>>,
      <<4, 1>>, <<4, 2>>, <<4, 3>>, <<4, 4>>,
      <<5, 1>>, <<5, 2>>, <<5, 3>>, <<5, 4>>, <<5, 5>>>>

TableSuccessor(p) ==
    IF \E k \in 1..Len(TableSequence) : TableSequence[k] = p
    THEN LET k == CHOOSE j \in 1..Len(TableSequence) : TableSequence[j] = p
         IN  TableSequence[Min2(k + 1, Len(TableSequence))]
    ELSE p

(* C1: every Advance moves the position to its successor in the sequence
   (1,1)..(1,4),(2,1)..(2,4),(3,1)..(3,6),(4,1)..(4,4),(5,1)..(5,5), and leaves
   it at (5,5) once there.  The code does not do this: at (3,5) the bounded
   current_stage stores 5 for 5 + 1, so Advance stays at (3,5).              *)
C1_AdvanceFollowsTableSequence ==
    [][Advance => position' = TableSuccessor(position)]_vars

(* C2 as stated: every Setup ends with stage_complete false and
   monitoring_active true, whether or not its host actions succeed.          *)
C2_SetupAlwaysSetsFlags ==
    [][Setup => ~stage_complete' /\ monitoring_active']_vars

(* C2 amended: a Setup that finishes ends with stage_complete false and
   monitoring_active true whatever the flags were before; a Setup cancelled
   by a raising host call leaves both flags as they were.                    *)
C2_FinishedSetupSetsFlags ==
    [][Setup =>
          IF last'.ok THEN ~stage_complete' /\ monitoring_active'
          ELSE UNCHANGED <<stage_complete, monitoring_active>>]_vars

C2_Witness ==
    /\ last.op = "Setup" /\ last.ok
    /\ ~stage_complete /\ monitoring_active
    /\ current_chapter = 4 /\ is_in_sculpt_mode(host)

(* C3 as stated: stage_complete is true exactly when the validator succeeded
   since the most recent Setup, Advance, Reset or GotoChapter call.          *)
C3_CompleteIffOkSinceCall == stage_complete <=> okSinceCall

(* C3 amended: stage_complete is true exactly when the validator succeeded
   (in Validate or in a poll tick) since the most recent Setup that finished,
   Advance that went past the last-position return, Reset or GotoChapter;
   an Advance at (5,5) and a cancelled Setup leave it as it was.             *)
C3_CompleteIffOkSinceClear == stage_complete <=> okSinceClear

C3_Witness == stage_complete /\ okSinceClear /\ ~okSinceCall

(* C4: a Validate or a poll tick never changes stage_complete from true to
   false; only Setup, Advance, Reset and GotoChapter do.                     *)
C4_CompleteIsSticky ==
    [][/\ stage_complete /\ (Validate \/ PollTick) => stage_complete'
       /\ stage_complete /\ ~stage_complete' =>
              Setup \/ Advance \/ Reset \/ GotoChapter]_vars

C4_Witness ==
    /\ stage_complete
    /\ last.op = "Tick" /\ last.msg.tag = "check" /\ ~last.ok
    /\ ~validate_stage(current_chapter, current_stage, host, baseline).ok

(* C5: Validate changes neither the position, the baseline nor the host, and
   a Validate that follows a Validate with no other operation and no scene
   change in between returns the same (complete, message).                   *)
C5_ValidateIsRepeatable ==
    [][Validate =>
          /\ UNCHANGED <<current_chapter, current_stage, baseline, host>>
          /\ last.op = "Validate" => last'.ok = last.ok /\ last'.msg = last.msg]_vars

C5_Witness ==
    /\ last.op = "Validate" /\ last.ok /\ stage_complete
    /\ last.msg = validate_stage(current_chapter, current_stage, host, baseline).msg
    /\ current_chapter = 1 /\ current_stage = 2

(* C6: Reset yields (1, 1, false, false) and GotoChapter(n) yields
   (n, 1, false, false), from any state.                                     *)
C6_ResetAndGoto ==
    [][/\ Reset =>
              position' = <<1, 1>> /\ ~stage_complete' /\ ~monitoring_active'
       /\ GotoChapter =>
              position' = <<last'.id, 1>> /\ ~stage_complete' /\ ~monitoring_active']_vars

C6_Witness ==
    /\ last.op = "Goto" /\ last.id = 3
    /\ position = <<3, 1>> /\ ~stage_complete /\ ~monitoring_active
    /\ validate_stage(current_chapter, current_stage, host, baseline).ok

(* the stage counts S of the claim *)
StageCount(c) == CASE c = 1 -> 4 [] c = 2 -> 4 [] c = 3 -> 6 [] c = 4 -> 4 [] c = 5 -> 5

(* C7: in every reachable state 1 <= chapter <= 5 and 1 <= stage <= S(chapter). *)
C7_PositionInTable ==
    /\ current_chapter \in 1..5
    /\ current_stage \in 1..StageCount(current_chapter)

C7_Witness == last.op = "Advance" /\ last.ok /\ position = <<2, 1>>

(* C8: Advance at (5,5) changes neither the position, the two flags nor the
   baseline, so (5,5) is absorbing under Advance.                            *)
C8_AdvanceAtEndIsNoOp ==
    [][Advance /\ position = <<5, 5>> =>
          UNCHANGED <<current_chapter, current_stage, stage_complete,
                      monitoring_active, baseline>>]_vars

C8_Witness ==
    /\ last.op = "Advance" /\ ~last.ok
    /\ position = <<5, 5>> /\ stage_complete /\ monitoring_active

(* C9: away from (5,5) the position Advance produces is the one it would
   have produced with the other value of stage_complete, and an Advance that
   moved the position leaves both flags false.                               *)
C9_AdvanceIgnoresComplete ==
    [][Advance =>
          LET other == next_stage(current_chapter, current_stage,
                                  ~stage_complete, monitoring_active)
          IN  /\ position # <<5, 5>> => position' = <<other.chapter, other.stage>>
              /\ position' # position => ~stage_complete' /\ ~monitoring_active']_vars

C9_Witness ==
    /\ last.op = "Advance" /\ last.ok /\ last.id = 0
    /\ position = <<1, 2>> /\ ~stage_complete /\ ~monitoring_active

(* C10: a controller that fires while monitoring_active is false finishes
   without evaluating the validator, and a finished controller never fires
   again, whatever monitoring_active becomes.                                *)
C10_StoppedControllerStaysStopped ==
    [][/\ PollTick /\ ~monitoring_active =>
              /\ \E i \in Controllers :
                     /\ ctrl[i].state = "running" /\ ctrl'[i].state = "finished"
                     /\ \A j \in Controllers \ {i} : ctrl'[j] = ctrl[j]
              /\ last'.msg.tag = "finish" /\ ~last'.ok
              /\ stage_complete' = stage_complete
       /\ \A i \in Controllers :
              ctrl[i].state = "finished" => ctrl'[i] = ctrl[i]]_vars

C10_Witness ==
    \E i \in Controllers :
        /\ ctrl[i].state = "finished"
        /\ monitoring_active /\ ~stage_complete
        /\ validate_stage(current_chapter, current_stage, host, baseline).ok

(* a poll tick in which instance i called check_stage *)
Evaluates(i) ==
    /\ PollTick /\ last'.msg.tag = "check"
    /\ ctrl[i].state = "running" /\ ctrl[i].since_check > CheckAfter
    /\ ctrl'[i].since_check = 0

(* C11 as stated: an instance that was registered when Advance, Reset or
   GotoChapter cleared monitoring_active never evaluates the validator
   again, whatever is done afterwards.                                       *)
C11_StaleControllerNeverEvaluates ==
    [][\A i \in stale.ctrls : ~Evaluates(i)]_vars

(* C11 amended: Advance (when it goes past the last-position return), Reset
   and GotoChapter leave monitoring_active false; while it is false every
   firing finishes its instance without evaluating; only a Setup that
   finishes sets it back to true, and an instance that was registered at the
   clearing and has not fired since then stays registered and evaluates
   again, only while monitoring_active is true.                             *)
C11_StaleControllerStopsUnlessSetup ==
    [][/\ (Advance /\ last'.ok) \/ Reset \/ GotoChapter =>
              ~monitoring_active' /\ stale'.ctrls = Registered
       /\ \A i \in stale.ctrls :
              /\ ctrl[i].state = "running"
              /\ Evaluates(i) => monitoring_active
              /\ ~monitoring_active /\ ctrl'[i] # ctrl[i] /\ PollTick =>
                     ctrl'[i].state = "finished" /\ stage_complete' = stage_complete
       /\ ~monitoring_active /\ monitoring_active' => Setup /\ last'.ok]_vars

C11_Witness ==
    /\ stale.ctrls # {}
    /\ \A i \in stale.ctrls : ctrl[i].state = "running" /\ ctrl[i].since_check = 0
    /\ last.op = "Tick" /\ last.msg.tag = "check" /\ last.ok
    /\ monitoring_active /\ stage_complete

(* C12: with monitoring_active true and an undo in progress a firing takes
   the skip branch whatever time has elapsed, and a skipped firing runs no
   validator and changes neither the position, the flags, the baseline nor
   any instance (its timer and its time of last evaluation).                *)
C12_UndoSkipsTick ==
    [][/\ \A since \in 0..MaxElapsed : modal_branch(TRUE, 1, since) = "skip"
       /\ PollTick /\ last'.msg.tag = "skip" =>
              /\ monitoring_active /\ ~last'.ok
              /\ UNCHANGED <<current_chapter, current_stage, stage_complete,
                             monitoring_active, baseline, ctrl>>]_vars

C12_Witness ==
    /\ last.op = "Tick" /\ last.msg.tag = "skip"
    /\ monitoring_active /\ ~stage_complete
    /\ \E i \in Controllers : ctrl[i].state = "running" /\ ctrl[i].since_check > CheckAfter
    /\ validate_stage(current_chapter, current_stage, host, baseline).ok

(* C13 as stated: with monitoring_active true and no undo, a firing fails to
   evaluate only when less than 0.2 s have elapsed for a registered
   instance; a firing exactly 0.2 s after the last evaluation evaluates.    *)
C13_EvaluatesFromTwoTenths ==
    [][PollTick /\ last'.msg.tag = "wait" =>
          \E i \in Registered : ctrl[i].since_check < CheckAfter]_vars

(* C13 amended: with monitoring_active true and no undo, a firing evaluates
   when more than 0.2 s have elapsed since the instance's last evaluation
   (or its start) and does not evaluate otherwise; a firing exactly 0.2 s
   after the last evaluation does not evaluate and changes nothing.         *)
C13_EvaluatesAfterTwoTenths ==
    [][/\ \A since \in 0..MaxElapsed :
              modal_branch(TRUE, 0, since) = IF since > CheckAfter THEN "check" ELSE "wait"
       /\ PollTick /\ last'.msg.tag = "wait" =>
              /\ monitoring_active /\ ~last'.ok
              /\ \E i \in Registered : ctrl[i].since_check <= CheckAfter
              /\ UNCHANGED <<stage_complete, ctrl>>
       /\ PollTick /\ last'.msg.tag = "check" =>
              monitoring_active /\ \E i \in Registered : Evaluates(i)]_vars

C13_Witness ==
    /\ last.op = "Tick" /\ last.msg.tag = "wait"
    /\ monitoring_active /\ ~stage_complete
    /\ \A i \in Controllers : ctrl[i].state = "running" /\ ctrl[i].since_check = CheckAfter
    /\ validate_stage(current_chapter, current_stage, host, baseline).ok

(* C14: a poll tick changes neither chapter, stage, monitoring_active nor the
   baseline; the only change it makes to stage_complete is from false to
   true, in a firing whose validator reported success.                      *)
C14_TickOnlySetsComplete ==
    [][PollTick =>
          /\ UNCHANGED <<current_chapter, current_stage, monitoring_active, baseline>>
          /\ stage_complete => stage_complete'
          /\ ~last'.ok => stage_complete' = stage_complete
          /\ stage_complete' # stage_complete =>
                 ~stage_complete /\ last'.msg.tag = "check" /\ last'.ok]_vars

C14_Witness ==
    /\ last.op = "Tick" /\ last.msg.tag = "check" /\ last.ok
    /\ stage_complete /\ position = <<4, 1>> /\ okSinceCall

(* C15: monitoring_active is true exactly when an instance of the monitoring
   operator is registered.  The code does not keep the two together: Setup
   sets the flag without starting an instance, and an instance is started
   without the flag being set.                                              *)
C15_MonitoringIffRegistered == monitoring_active <=> Registered # {}

(* C16: when reading the host raises during validation, Validate and the
   poll tick get (false, error message) and leave chapter, stage and both
   flags as they were; the instance whose firing met the fault stays
   registered, with monitoring still on, so that it evaluates again.        *)
C16_FaultIsNotPropagated ==
    [][/\ Validate /\ host.fault =>
              /\ ~last'.ok /\ last'.msg.tag = "error"
              /\ UNCHANGED <<current_chapter, current_stage, stage_complete,
                             monitoring_active>>
       /\ PollTick /\ last'.msg.tag = "check" /\ host.fault =>
              /\ ~last'.ok
              /\ UNCHANGED <<current_chapter, current_stage, stage_complete,
                             monitoring_active>>
              /\ \E i \in Registered : Evaluates(i) /\ ctrl'[i].state = "running"
              /\ \A i \in Registered : ctrl'[i].state = "running"]_vars

C16_Witness ==
    /\ last.op = "Tick" /\ last.msg.tag = "check" /\ ~last.ok
    /\ host.fault /\ monitoring_active
    /\ \E i \in Registered : ctrl[i].since_check = 0

(* the pairs outside the stage table, within the range of the properties *)
UnknownPair == current_stage > StageCount(current_chapter)

(* C17 as stated: for every pair outside the stage table validate returns
   failure with the generic error message, also when the 3D view or the
   active object is absent (stated here for the hosts whose reads succeed). *)
C17_UnknownPairIsGenericError ==
    [][Validate /\ UnknownPair /\ ~host.fault =>
          ~last'.ok /\ last'.msg.tag = "judge_error"]_vars

(* C17 amended: for every pair outside the stage table validate returns
   failure; the message is the generic error message, except in chapter 2
   when no 3D view is found, where it is the no-3D-view message, and when a
   read of the host raises, where it is the message of the exception.       *)
C17_UnknownPairFails ==
    [][Validate /\ UnknownPair =>
          /\ ~last'.ok
          /\ last'.msg.tag = IF host.fault THEN "error"
                             ELSE IF current_chapter = 2 /\ ~host.view THEN "no_3d_view"
                             ELSE "judge_error"]_vars

C17_Witness ==
    /\ last.op = "Validate" /\ ~last.ok /\ last.msg.tag = "no_3d_view"
    /\ position = <<2, 5>> /\ ~host.view /\ ~host.fault

(* the snapshot every field of which is read from host state h *)
Snapshot(h) ==
    [initial_position |-> h.location, initial_rotation |-> h.rotation,
     initial_scale |-> h.scale,
     initial_view_distance |-> h.view_distance, initial_view_location |-> h.view_location,
     initial_vertex_count |-> get_mesh_element_count(h, h.active)[1],
     initial_edge_count |-> get_mesh_element_count(h, h.active)[2],
     initial_face_count |-> get_mesh_element_count(h, h.active)[3],
     initial_vertex_positions |-> h.sphere_co]

(* C18 as stated: after a Setup that completes, every field of the baseline
   holds a value read from the host during that call.                       *)
C18_SetupReplacesWholeBaseline ==
    [][Setup /\ last'.ok => baseline' = Snapshot(host')]_vars

(* C18 amended: a Setup that completes assigns only the fields of its
   chapter and leaves every other field as an earlier Setup left it:
   chapter 1 position, rotation and scale; chapter 2 view distance and view
   location, when a 3D view is found; chapter 3 the three element counts,
   when an object named "Cube" is found; chapter 4 the vertex positions and
   the vertex count; chapter 5 nothing.                                     *)
C18_SetupAssignsChapterFields ==
    [][Setup /\ last'.ok =>
          baseline' =
             CASE current_chapter = 1 ->
                    [baseline EXCEPT !.initial_position = host'.location,
                                     !.initial_rotation = host'.rotation,
                                     !.initial_scale = host'.scale]
               [] current_chapter = 2 ->
                    IF get_view3d_space(host)
                    THEN [baseline EXCEPT !.initial_view_distance = host.view_distance,
                                          !.initial_view_location = host.view_location]
                    ELSE baseline
               [] current_chapter = 3 ->
                    IF find_cube(host)
                    THEN [baseline EXCEPT !.initial_vertex_count = host'.verts,
                                          !.initial_edge_count = host'.edges,
                                          !.initial_face_count = host'.faces]
                    ELSE baseline
               [] current_chapter = 4 ->
                    [baseline EXCEPT !.initial_vertex_positions = host'.sphere_co,
                                     !.initial_vertex_count = Len(host'.sphere_co)]
               [] current_chapter = 5 -> baseline]_vars

C18_Witness ==
    /\ last.op = "Setup" /\ last.ok /\ current_chapter = 1
    /\ baseline.initial_position = host.location
    /\ baseline.initial_vertex_positions # <<>>
    /\ host.sphere_co = <<>>

(* C19: the baseline changes only in a Setup step: user edits of the scene,
   Validate, poll ticks, Advance, Reset, GotoChapter, the start of an
   instance and the passing of time all leave every field as it was.       *)
C19_BaselineChangesOnlyInSetup ==
    [][baseline' # baseline => Setup]_vars

C19_Witness ==
    /\ last.op = "User"
    /\ baseline.initial_scale = <<100, 100, 100>> /\ host.scale # <<100, 100, 100>>
    /\ baseline.initial_vertex_count = CubeVerts /\ host.objects # {}
    /\ monitoring_active

(* C20: Setup at chapter 3 stage 6, run to completion on the current scene,
   leaves the baseline vertex, edge and face counts at those of a freshly
   created primitive cube, whatever the scene and the baseline were before
   (a scene without an object named "Cube" included).                      *)
C20_LastCuttingStageCapturesFreshCube ==
    LET b == setup_baseline(3, 6, host, baseline, 0)
    IN  <<b.initial_vertex_count, b.initial_edge_count, b.initial_face_count>>
            = <<CubeVerts, CubeEdges, CubeFaces>>

(* the verdict of a Validate at position (c, s) is the last thing recorded *)
Validated(c, s) ==
    last.op = "Validate" /\ current_chapter = c /\ current_stage = s

(* C21: at chapter 1 stage 4, with the cube active, Validate reports complete
   exactly when the scale differs from the baseline scale by more than 0.01
   on at least one of the three axes X, Y, Z.                               *)
C21_AnyScaleAxisCompletes ==
    Validated(1, 4) /\ host.active = "Cube" =>
        (last.ok <=> \E axis \in 1..3 :
                        Abs(host.scale[axis] - baseline.initial_scale[axis]) > 1)

(* C25 as stated: at chapter 1 stage 2, for any active object, Validate
   reports complete exactly when X minus the baseline X is within 0.1 of 2.0 *)
C25_AnyActiveObjectMovedByTwo ==
    Validated(1, 2) =>
        (last.ok <=> /\ host.active # "None"
                     /\ Abs((host.location[1] - baseline.initial_position[1]) - 200) < 10)

(* C25: at chapter 1 stage 2, Validate reports complete exactly when the
   active object is the one named "Cube" and its X position minus the
   baseline X differs from 2.0 by strictly less than 0.1.                   *)
C25_CubeMovedByTwo ==
    Validated(1, 2) =>
        (last.ok <=> /\ host.active = "Cube"
                     /\ Abs((host.location[1] - baseline.initial_position[1]) - 200) < 10)

C25_Witness ==
    /\ Validated(1, 2)
    /\ last.ok
    /\ host.location[1] = 205
    /\ baseline.initial_position[1] = 0

(* C22: at chapter 5 stage 4, with an object active, Validate reports
   complete exactly when the node graph of the active material holds a link
   out of the Color output of some image-texture node into the Base Color
   input of a principled node, however many nodes of either kind there are. *)
C22_SomeImageColorIntoBaseColor ==
    Validated(5, 4) /\ host.active # "None" =>
        LET mat == host.material
        IN  last.ok <=>
                /\ mat.slot
                /\ mat.use_nodes
                /\ \E link \in mat.links :
                      /\ mat.nodes[link.from_node].type = "TEX_IMAGE"
                      /\ link.from_socket = "Color"
                      /\ mat.nodes[link.to_node].type = "BSDF_PRINCIPLED"
                      /\ link.to_socket = "Base Color"

(* the verdict validate_stage gives at (c, s) on the current host and snapshot *)
Verdict(c, s) == validate_stage(c, s, host, baseline).ok

(* C23: at chapter 2 stage 4, with a 3D view on the screen, Validate reports
   complete exactly when the view location is more than 0.1 (Euclidean) from
   the baseline location and the view distance differs from the baseline
   distance by more than 0.5; a host state that completes stage 4 completes
   stages 1, 2 and 3 against the same baseline.                             *)
C23_PanAndZoomTogether ==
    Validated(2, 4) /\ get_view3d_space(host) =>
        /\ last.ok <=>
               /\ SqDist(host.view_location, baseline.initial_view_location) > 10 * 10
               /\ Abs(host.view_distance - baseline.initial_view_distance) > 50
        /\ last.ok => \A s \in 1..3 : Verdict(2, s)

C23_Witness ==
    /\ Validated(2, 4)
    /\ ~last.ok
    /\ get_view3d_space(host)
    /\ SqDist(host.view_location, baseline.initial_view_location) = 20 * 20
    /\ Abs(host.view_distance - baseline.initial_view_distance) = 30

C23_WitnessComplete ==
    /\ Validated(2, 4)
    /\ last.ok
    /\ SqDist(host.view_location, baseline.initial_view_location) = 20 * 20
    /\ Abs(host.view_distance - baseline.initial_view_distance) = 60

(* the sphere is found and the host is in sculpt mode *)
Sculpting == is_in_sculpt_mode(host) /\ find_sphere(host)

(* the vertices, among those both the sphere and the snapshot have, that lie
   more than 0.001 from their snapshot position *)
MovedVertices ==
    {i \in 1..Min2(Len(host.sphere_co), Len(baseline.initial_vertex_positions)) :
        SqDist(host.sphere_co[i], baseline.initial_vertex_positions[i]) > 10 * 10}

(* C24: at chapter 4 stage 2, in sculpt mode with a sphere, Validate reports
   complete exactly when more than 5 of the vertices that both the sphere
   and the snapshot have lie more than 0.001 from their snapshot position,
   and its message carries that number.                                    *)
C24_MoreThanFiveMoved ==
    Validated(4, 2) /\ Sculpting =>
        /\ last.ok <=> Cardinality(MovedVertices) > 5
        /\ last.msg.n = <<Cardinality(MovedVertices)>>

(* exactly 5 counted although more vertices than 5 have moved: the others lie
   beyond the end of the snapshot *)
C24_Witness ==
    /\ Validated(4, 2)
    /\ Sculpting
    /\ ~last.ok
    /\ last.msg.n = <<5>>
    /\ Len(baseline.initial_vertex_positions) = 5
    /\ \A i \in 1..Len(host.sphere_co) : host.sphere_co[i] # SphereCo[i]
    /\ Len(host.sphere_co) > 5

C24_WitnessComplete ==
    /\ Validated(4, 2)
    /\ last.ok
    /\ last.msg.n = <<6>>

(* no snapshot positions, or no vertices in the sphere *)
NothingToCompare ==
    Len(baseline.initial_vertex_positions) = 0 \/ Len(host.sphere_co) = 0

(* C26 as stated: with nothing to compare, Validate at chapter 4 stage 2
   reports incomplete with a moved count of 0, and stage_complete stays
   unset.                                                                  *)
C26_NothingToCompareReportsZero ==
    Validated(4, 2) /\ NothingToCompare =>
        /\ ~last.ok
        /\ last.msg = Msg("deform_sphere", <<0>>, "")
        /\ ~stage_complete

(* C26: with nothing to compare, Validate at chapter 4 stage 2 reports
   incomplete and leaves stage_complete unset; the message carries a moved
   count of 0 when the host is in sculpt mode with a sphere, and asks for
   sculpt mode otherwise.                                                  *)
C26_NothingToCompareIsIncomplete ==
    Validated(4, 2) /\ NothingToCompare =>
        /\ ~last.ok
        /\ ~stage_complete
        /\ last.msg = IF Sculpting THEN Msg("deform_sphere", <<0>>, "")
                      ELSE Msg("sculpt_required", <<>>, "")

C26_Witness ==
    /\ Validated(4, 2)
    /\ Sculpting
    /\ Len(baseline.initial_vertex_positions) = 0
    /\ Len(host.sphere_co) = NumSphereVerts
    /\ \A i \in 1..Len(host.sphere_co) : host.sphere_co[i] # SphereCo[i]
    /\ last.msg.n = <<0>>

(* the positions of the table S = {1:4, 2:4, 3:6, 4:4, 5:5} *)
Covered(c, s) == c \in 1..5 /\ s \in 1..StageCount(c)

(* C27: get_stage_info(c, s) is a descriptor with a title, a name and a
   description, none of them empty, exactly at the positions of the table S
   and the empty descriptor everywhere else; the max-stage table gives S(c)
   for each chapter; and at each position of S validate_stage answers with a
   rule of that position, never with the generic error.                    *)
C27_CatalogTableAndDispatchAgree ==
    LET c == current_chapter
        s == current_stage
        info == get_stage_info(c, s)
    IN  /\ Covered(c, s) =>
               /\ {"title", "name", "description"} \subseteq DOMAIN info
               /\ info.title # "" /\ info.name # "" /\ info.description # ""
               /\ max_stages_per_chapter(c) = StageCount(c)
               /\ validate_stage(c, s, host, baseline).msg.tag # "judge_error"
        /\ ~Covered(c, s) => DOMAIN info = {}
        /\ last.op = "Draw" => (last.msg.s # "" <=> Covered(c, s))

C27_Witness ==
    /\ last.op = "Draw"
    /\ position = <<3, 6>>
    /\ last.msg.tag = "Stage 6: Loop cut"
    /\ last.msg.n = <<6, 6>>

C27_WitnessAbsent ==
    /\ last.op = "Draw"
    /\ position = <<4, 5>>
    /\ last.msg.tag = ""

(* an instance is registered, monitoring_active is set and the host state
   meets the goal of the current stage *)
Polling ==
    /\ Registered # {}
    /\ monitoring_active
    /\ Verdict(current_chapter, current_stage)

(* C28: from no moment on can Polling hold for ever with stage_complete
   unset for ever: if an instance stays registered, monitoring_active stays
   set and the host keeps meeting the goal, stage_complete becomes true.   *)
C28_PollingCompletesTheStage ==
    []<>(~Polling \/ stage_complete)

C28_Witness ==
    /\ Polling
    /\ ~stage_complete
    /\ last.op = "Tick"
    /\ last.msg.tag = "wait"

(* A Setup may have completed at the current position since the position
   last changed.  monitoring_active is set by a completed Setup only, and is
   cleared by every Advance, Reset and GotoChapter that assigns the position;
   such an operation leaves the position as it was only when it assigns
   stage 1 to stage 1 or, clamped, stage 5 to chapter 3 stage 5, and then a
   Setup before it still counts.  Everywhere else no Setup has completed
   since the position changed.                                             *)
SetupSinceMove ==
    \/ monitoring_active
    \/ current_stage = 1
    \/ position = <<3, 5>>

(* C29: stage_complete becomes true only at a position where a Setup has
   completed since the position last changed, in every order of operations
   the panel offers.                                                       *)
C29_CompletedOnlyAfterSetup ==
    [][~stage_complete /\ stage_complete' => SetupSinceMove]_vars

(* the stages whose rule compares the host state with the snapshot *)
ChangeDetection(c, s) ==
    \/ c = 1 /\ s \in 2..4
    \/ c = 2 /\ s \in 1..4
    \/ c = 3 /\ s \in 5..6
    \/ c = 4 /\ s = 2

(* C30: at a change-detection stage, a Validate that directly follows a
   completed Setup, with no change of the host in between, reports
   incomplete, whatever scene the Setup started from.                      *)
C30_NothingChangedRightAfterSetup ==
    [][/\ last.op = "Setup" /\ last.ok
       /\ ChangeDetection(current_chapter, current_stage)
       /\ Validate
       => ~last'.ok]_vars

(* C31: at most one poll instance is registered at any time. *)
C31_AtMostOneRegistered ==
    Cardinality(Registered) <= 1

(* C32: an Advance that leaves the position (chapter, stage) as it was leaves
   stage_complete and monitoring_active as they were.                      *)
C32_AdvanceInPlaceKeepsFlags ==
    [][Advance /\ position' = position
          => /\ stage_complete' = stage_complete
             /\ monitoring_active' = monitoring_active]_vars

====
